---- MODULE Spec2Model ----
(***************************************************************************)
(* Vector + graph retrieval service: the process-file edge function        *)
(* (ingestion: chunk, embed, insert nodes, build kNN edges, mark the file  *)
(* completed) and the hybrid-search edge function (embed the query, rank   *)
(* the file's nodes, expand one hop along edges, fuse the scores), over a  *)
(* relational store with the tables files, nodes and edges.                *)
(*                                                                         *)
(* Numbers.  JavaScript doubles are modelled in fixed point: an embedding  *)
(* component is an integer in units of 1/EmbScale, a cosine similarity an  *)
(* integer in units of 1/ScoreScale, a request weight an integer in tenths *)
(* (the client's sliders step by 0.1).  32-bit unsigned words are pairs    *)
(* <<hi, lo>> of 16-bit halves, so that no intermediate value leaves the   *)
(* range of the model checker's integers.  Text is a sequence of UTF-16    *)
(* code units.                                                             *)
(***************************************************************************)
EXTENDS Integers, Sequences, FiniteSets, TLC

(***************************************************************************)
(* Bounds of the model                                                     *)
(***************************************************************************)
\* embedding dimension: `dim` is 768 in the source, reduced here
dim == 2
\* chunk length: {1,500} in the source's regular expression, reduced here
ChunkLimit == 2
\* fixed-point resolution of an embedding component
EmbScale == 1000
\* fixed-point resolution of a cosine similarity
ScoreScale == 100
\* store calls that may fail in one behaviour
MaxFaults == 1
\* rows the nodes table may hold
MaxNodes == 7
\* length of the documents that exercise the chunker
MaxDocLen == 4

(***************************************************************************)
(* Program constants                                                       *)
(***************************************************************************)
\* scores.sort(...).slice(0, 5)
TopNeighbors == 5
\* Math.imul(seed, 16777619)
FnvPrime == 16777619
\* const LABEL_WORD_LIMIT = 3
LABEL_WORD_LIMIT == 3
\* const LABEL_CHAR_LIMIT = 40
LABEL_CHAR_LIMIT == 40

(***************************************************************************)
(* 32-bit unsigned arithmetic on <<hi, lo>> pairs                          *)
(***************************************************************************)
RECURSIVE Xor16(_, _, _)
Xor16(a, b, n) ==
  IF n = 0 THEN 0
  ELSE (((a % 2) + (b % 2)) % 2) + 2 * Xor16(a \div 2, b \div 2, n - 1)

RECURSIVE Pow2(_)
Pow2(n) == IF n = 0 THEN 1 ELSE 2 * Pow2(n - 1)

\* 2^16: a word is hi * Half + lo
Half == Pow2(16)

\* a ^ b on 32-bit words
XorW(a, b) == <<Xor16(a[1], b[1], 16), Xor16(a[2], b[2], 16)>>

\* (a << n) >>> 0, for 0 < n < 16
ShlW(a, n) ==
  <<(((a[1] * Pow2(n)) % Half) + (a[2] \div Pow2(16 - n))) % Half,
    (a[2] * Pow2(n)) % Half>>

\* a >>> n, for 16 <= n < 32
ShrW(a, n) == <<0, a[1] \div Pow2(n - 16)>>

\* Math.imul(a, k) >>> 0, for a multiplier k whose halves keep the partial
\* products below 2^31 (the FNV prime 0x01000193 does)
ImulW(a, k) ==
  LET kh == k \div Half
      kl == k % Half
      low == a[2] * kl
  IN  <<((low \div Half) + a[1] * kl + a[2] * kh) % Half, low % Half>>

\* (a + n) on 32-bit words, n a small natural number
AddW(a, n) ==
  LET low == a[2] + n
  IN  <<(a[1] + (low \div Half)) % Half, low % Half>>

\* a % m, for 0 < m <= 10000
ModW(a, m) == (((a[1] % m) * (Half % m)) + a[2]) % m

\* 2166136261 >>> 0  (0x811C9DC5)
FnvOffsetBasis == <<33052, 40389>>
\* 0x9e3779b9
GoldenRatio == <<40503, 31161>>

\* Math.sqrt, rounded down to an integer
RECURSIVE SqrtSearch(_, _, _)
SqrtSearch(x, lo, hi) ==
  IF lo >= hi THEN lo
  ELSE LET mid == (lo + hi + 1) \div 2
       IN  IF mid * mid <= x THEN SqrtSearch(x, mid, hi)
           ELSE SqrtSearch(x, lo, mid - 1)

Sqrt(x) == SqrtSearch(x, 0, 46340)

\* a function on 1..n as an array (a tuple), its elements computed once
Array(f) == f \o <<>>

RECURSIVE SumTo(_, _)
\* f[1] + ... + f[n]
SumTo(f, n) == IF n = 0 THEN 0 ELSE f[n] + SumTo(f, n - 1)

(***************************************************************************)
(* localEmbedding of hybrid-search                                         *)
(***************************************************************************)
RECURSIVE seedLoop(_, _, _)
\* for (i = 0; i < text.length; i++) { seed ^= c; seed = imul(seed, prime) }
\* (the test of `next`, always true, has each seed computed in its turn)
seedLoop(text, i, seed) ==
  IF i > Len(text) THEN seed
  ELSE LET next == ImulW(XorW(seed, <<0, text[i]>>), FnvPrime)
       IN  IF next \in Seq(Nat) THEN seedLoop(text, i + 1, next) ELSE next

\* the xorshift value of dimension i (0-based), mapped to [-1, 1] in units
\* of 1/10000
scramble(seed, i) ==
  LET s0 == XorW(seed, AddW(GoldenRatio, i))
      s1 == XorW(s0, ShlW(s0, 13))
      s2 == XorW(s1, ShrW(s1, 17))
      s3 == XorW(s2, ShlW(s2, 5))
  IN  2 * ModW(s3, 10000) - 10000

\* vec[i] / norm with norm = Math.sqrt(sum) || 1, in units of 1/EmbScale
normalize(raw) ==
  LET sq == [i \in 1..dim |-> raw[i] * raw[i]]
      n0 == Sqrt(SumTo(sq, dim))
      norm == IF n0 = 0 THEN 10000 ELSE n0
  IN  Array([i \in 1..dim |-> (raw[i] * EmbScale) \div norm])

localEmbedding(text) ==
  LET seed == seedLoop(text, 1, FnvOffsetBasis)
  IN  normalize(Array([i \in 1..dim |-> scramble(seed, i - 1)]))

(***************************************************************************)
(* cosine of hybrid-search, in units of 1/ScoreScale                       *)
(***************************************************************************)
cosine(a, b) ==
  LET dot == SumTo([i \in 1..Len(a) |-> a[i] * b[i]], Len(a))
      na == SumTo([i \in 1..Len(a) |-> a[i] * a[i]], Len(a))
      nb == SumTo([i \in 1..Len(a) |-> b[i] * b[i]], Len(a))
  IN  (dot * ScoreScale) \div (Sqrt(na) * Sqrt(nb))

(***************************************************************************)
(* localEmbedding and cosine of process-file (the function keeps its own   *)
(* copy of both)                                                           *)
(***************************************************************************)
RECURSIVE pfSeedLoopFnv1(_, _, _)
\* a faulty variant of pfSeedLoop: the product taken before the xor
pfSeedLoopFnv1(text, i, seed) ==
  IF i > Len(text) THEN seed
  ELSE LET next == XorW(ImulW(seed, FnvPrime), <<0, text[i]>>)
       IN  IF next \in Seq(Nat) THEN pfSeedLoopFnv1(text, i + 1, next) ELSE next

RECURSIVE pfSeedLoop(_, _, _)
pfSeedLoop(text, i, seed) ==
  IF i > Len(text) THEN seed
  ELSE LET next == ImulW(XorW(seed, <<0, text[i]>>), FnvPrime)
       IN  IF next \in Seq(Nat) THEN pfSeedLoop(text, i + 1, next) ELSE next

pfScramble(seed, i) ==
  LET s0 == XorW(seed, AddW(GoldenRatio, i))
      s1 == XorW(s0, ShlW(s0, 13))
      s2 == XorW(s1, ShrW(s1, 17))
      s3 == XorW(s2, ShlW(s2, 5))
  IN  2 * ModW(s3, 10000) - 10000

pfLocalEmbedding(text) ==
  LET seed == pfSeedLoop(text, 1, FnvOffsetBasis)
      raw == Array([i \in 1..dim |-> pfScramble(seed, i - 1)])
      n0 == Sqrt(SumTo([i \in 1..dim |-> raw[i] * raw[i]], dim))
      norm == IF n0 = 0 THEN 10000 ELSE n0
  IN  Array([i \in 1..dim |-> (raw[i] * EmbScale) \div norm])

pfCosine(a, b) ==
  LET dot == SumTo([i \in 1..Len(a) |-> a[i] * b[i]], Len(a))
      na == SumTo([i \in 1..Len(a) |-> a[i] * a[i]], Len(a))
      nb == SumTo([i \in 1..Len(a) |-> b[i] * b[i]], Len(a))
  IN  (dot * ScoreScale) \div (Sqrt(na) * Sqrt(nb))

(***************************************************************************)
(* splitIntoChunks: text.match(/(.|\n){1,500}/g) || []                     *)
(***************************************************************************)
\* the code units neither `.` nor `\n` matches: CR, LS, PS
Unmatched == {13, 8232, 8233}

RECURSIVE chunkScan(_, _, _, _)
\* the matches found from position i on, cur being the match in progress
chunkScan(text, i, cur, acc) ==
  LET flushed == IF cur = <<>> THEN acc ELSE Append(acc, cur)
  IN  IF i > Len(text) THEN flushed
      ELSE IF text[i] \in Unmatched THEN chunkScan(text, i + 1, <<>>, flushed)
      ELSE IF Len(cur) + 1 = ChunkLimit
             THEN chunkScan(text, i + 1, <<>>, Append(acc, Append(cur, text[i])))
      ELSE chunkScan(text, i + 1, Append(cur, text[i]), acc)

splitIntoChunks(text) == chunkScan(text, 1, <<>>, <<>>)

(***************************************************************************)
(* Array.prototype.sort with the comparator (a, b) => b.key - a.key, which *)
(* is stable, and Array.prototype.slice(0, n)                              *)
(***************************************************************************)
\* a faulty variant of insertDesc: an unstable sort, p put before the pairs of equal key
insertDescUnstable(acc, p) ==
  LET pos == Cardinality({i \in 1..Len(acc) : acc[i][1] > p[1]})
  IN  SubSeq(acc, 1, pos) \o <<p>> \o SubSeq(acc, pos + 1, Len(acc))

\* p = <<key, element>> put after every pair of acc whose key is >= its own
insertDesc(acc, p) ==
  LET pos == Cardinality({i \in 1..Len(acc) : acc[i][1] >= p[1]})
  IN  SubSeq(acc, 1, pos) \o <<p>> \o SubSeq(acc, pos + 1, Len(acc))

RECURSIVE sortPairsDesc(_)
sortPairsDesc(s) ==
  IF s = <<>> THEN <<>>
  ELSE insertDesc(sortPairsDesc(SubSeq(s, 1, Len(s) - 1)), s[Len(s)])

\* the elements of s = <<key, element>> pairs by descending key
sortDesc(s) ==
  LET sorted == sortPairsDesc(Array(s))
  IN  Array([i \in 1..Len(sorted) |-> sorted[i][2]])

slice(s, n) == SubSeq(s, 1, IF n < Len(s) THEN n ELSE Len(s))

(***************************************************************************)
(* deriveNodeLabel and extractMetadataLabel.  A JSON value is a record     *)
(* with its type: [type |-> "undefined"], [type |-> "number"],             *)
(* [type |-> "string", text |-> t], [type |-> "array", items |-> s]; the   *)
(* metadata of a node is [type |-> "null"] or [type |-> "object",          *)
(* fields |-> f] with f[key] the value of each key (undefined if absent).  *)
(***************************************************************************)
\* what \s matches and String.prototype.trim strips: white space and line
\* terminators
WhiteSpace ==
  {9, 10, 11, 12, 13, 32, 160, 5760, 8232, 8233, 8239, 8287, 12288, 65279}
    \cup (8192..8202)

Undefined == [type |-> "undefined"]
Str(t) == [type |-> "string", text |-> t]

MetadataKeys == {"label", "title", "name", "keyword", "heading", "topic", "keywords"}
\* metadata JSONB DEFAULT '{}'
EmptyMetadata == [type |-> "object", fields |-> [k \in MetadataKeys |-> Undefined]]

\* String.prototype.trim
RECURSIVE trim(_)
trim(t) ==
  IF t = <<>> THEN t
  ELSE IF t[1] \in WhiteSpace THEN trim(Tail(t))
  ELSE IF t[Len(t)] \in WhiteSpace THEN trim(SubSeq(t, 1, Len(t) - 1))
  ELSE t

\* .replace(/\s+/g, " ").replace(/[\r\n]/g, " "): every run of white space
\* becomes one space
RECURSIVE collapse(_)
collapse(t) ==
  IF t = <<>> THEN t
  ELSE LET rest == collapse(Tail(t))
       IN  IF t[1] \notin WhiteSpace THEN <<t[1]>> \o rest
           ELSE IF rest # <<>> /\ rest[1] = 32 THEN rest
           ELSE <<32>> \o rest

\* .split(" ").filter(Boolean): the runs of code units other than a space
RECURSIVE splitWords(_, _, _)
splitWords(t, cur, acc) ==
  LET flushed == IF cur = <<>> THEN acc ELSE Append(acc, cur)
  IN  IF t = <<>> THEN flushed
      ELSE IF t[1] = 32 THEN splitWords(Tail(t), <<>>, flushed)
      ELSE splitWords(Tail(t), Append(cur, t[1]), acc)

\* .join(" ")
RECURSIVE join(_)
join(words) ==
  IF words = <<>> THEN <<>>
  ELSE IF Len(words) = 1 THEN words[1]
  ELSE words[1] \o <<32>> \o join(Tail(words))

\* a faulty variant of preferredKeys: title looked at before label
preferredKeysTitleFirst == <<"title", "label", "name", "keyword", "heading", "topic">>

\* const preferredKeys = ["label", "title", "name", "keyword", "heading", "topic"]
preferredKeys == <<"label", "title", "name", "keyword", "heading", "topic">>

\* the loops `if (typeof value === "string" && value.trim()) return
\* value.trim()` over a sequence of values; <<>> if none returns
RECURSIVE firstString(_)
firstString(values) ==
  IF values = <<>> THEN <<>>
  ELSE IF values[1].type = "string" /\ trim(values[1].text) # <<>>
    THEN trim(values[1].text)
  ELSE firstString(Tail(values))

\* the label or undefined, which is <<>> here: a label returned is never empty
extractMetadataLabel(metadata) ==
  IF metadata.type # "object" THEN <<>>
  ELSE LET byKey == firstString([i \in 1..Len(preferredKeys) |->
                                   metadata.fields[preferredKeys[i]]])
           keywords == metadata.fields["keywords"]
       IN  IF byKey # <<>> THEN byKey
           ELSE IF keywords.type = "array" THEN firstString(keywords.items)
           ELSE <<>>

\* the text of a node id (a uuid in the source), apart from every text of
\* code units
idText(id) == <<-id>>

\* "..."
Ellipsis == <<46, 46, 46>>

\* deriveNodeLabel of a node that is given
deriveNodeLabel(node) ==
  LET metadataLabel == extractMetadataLabel(node.metadata)
      cleanedContent == trim(collapse(node.content))
      words == splitWords(cleanedContent, <<>>, <<>>)
      snippet == join(slice(words, LABEL_WORD_LIMIT))
  IN  IF metadataLabel # <<>> THEN metadataLabel
      ELSE IF cleanedContent = <<>> THEN idText(node.id)
      ELSE IF Len(snippet) > LABEL_CHAR_LIMIT
        THEN trim(SubSeq(snippet, 1, LABEL_CHAR_LIMIT)) \o Ellipsis
      ELSE IF snippet # <<>> THEN snippet
      ELSE idText(node.id)

(***************************************************************************)
(* Inputs                                                                  *)
(***************************************************************************)
\* files.id values (gen_random_uuid in the source); 0 stands for an absent
\* fileId in a request
FileIds == {1, 2}
NoFile == 0
\* concurrent invocations of process-file and of hybrid-search
RunIds == {1, 2}
SearchIds == {1, 2}

\* uploaded documents: "ab", "ababcd"
Docs ==
  { <<97, 98>>,
    <<97, 98, 97, 98, 99, 100>> }

\* documents of seven chunks: "abcdefghijklm", "ababababababab",
\* "ababcdcdefefg"
LongDocs ==
  { <<97, 98, 99, 100, 101, 102, 103, 104, 105, 106, 107, 108, 109>>,
    <<97, 98, 97, 98, 97, 98, 97, 98, 97, 98, 97, 98, 97, 98>>,
    <<97, 98, 97, 98, 99, 100, 99, 100, 101, 102, 101, 102, 103>> }

\* every document of at most MaxDocLen code units out of "a", line feed and
\* carriage return
ChunkDocs == UNION {[1..n -> {97, 10, 13}] : n \in 0..MaxDocLen}

\* every text of one or two code units out of "a", e-acute and the euro
\* sign, as document and as query
EmbedTexts == UNION {[1..n -> {97, 233, 8364}] : n \in 1..2}

\* metadata values: null, and objects whose label is absent, "Foo", " ",
\* " Foo " or a number, whose title, name, keyword, heading and topic are
\* absent or "T", "N", "K", "H", "P", and whose keywords is absent, the
\* string "k", the array ["", 5, " k "] or the array [" "]
LabelMetadata ==
  LET Num == [type |-> "number"]
      Arr(items) == [type |-> "array", items |-> items]
      opt(c) == {Undefined, Str(<<c>>)}
  IN  {[type |-> "null"]} \cup
      {[type |-> "object",
        fields |-> [label |-> l, title |-> t, name |-> n, keyword |-> k,
                    heading |-> h, topic |-> p, keywords |-> ks]] :
         l \in {Undefined, Str(<<70, 111, 111>>), Str(<<32>>),
                Str(<<32, 70, 111, 111, 32>>), Num},
         t \in opt(84), n \in opt(78), k \in opt(75), h \in opt(72), p \in opt(80),
         ks \in {Undefined, Str(<<107>>),
                 Arr(<<Str(<<>>), Num, Str(<<32, 107, 32>>)>>),
                 Arr(<<Str(<<32>>)>>)}}

\* node contents: "ab", " ", " a \n b  c d ", a word of 45 code units, and
\* a word of 39 code units followed by " b"
LabelContents ==
  { <<97, 98>>,
    <<32>>,
    <<32, 97, 32, 10, 32, 98, 32, 32, 99, 32, 100, 32>>,
    [i \in 1..45 |-> 97],
    [i \in 1..39 |-> 97] \o <<32, 98>> }

\* the `query` of a request: absent, "", " ", "a"
NoQuery == [given |-> FALSE, text |-> <<>>]
Queries ==
  {NoQuery} \cup {[given |-> TRUE, text |-> t] : t \in {<<>>, <<32>>, <<97>>}}

\* vectorWeight and graphWeight in tenths, and topK
Weights == {0, 10}
TopKs == {2, 10}

VARIABLES
  blobs,     \* storage bucket "uploads": the text stored for each file
  files,     \* table files: the status of each file record
  nodes,     \* table nodes, in insertion order
  edges,     \* table edges, in insertion order
  nextId,    \* the next nodes.id the store hands out
  runs,      \* the invocations of process-file
  searches,  \* the invocations of hybrid-search
  faults,    \* store calls that have failed so far
  client     \* the page: Index, FileUpload and QueryInterface

vars == <<blobs, files, nodes, edges, nextId, runs, searches, faults, client>>

NoResponse == [kind |-> "none"]
ErrorResponse(message) == [kind |-> "error", error |-> message]

IdleRun ==
  [pc |-> "idle", fileId |-> NoFile, chunks |-> <<>>, embeddings |-> <<>>,
   nodes |-> <<>>, edges |-> <<>>, calls |-> <<>>, response |-> NoResponse]

IdleSearch ==
  [pc |-> "idle", query |-> NoQuery, fileId |-> NoFile, vectorWeight |-> 0,
   graphWeight |-> 0, topK |-> 0, queryEmbedding |-> <<>>, typedNodes |-> <<>>,
   vectorResults |-> <<>>, calls |-> <<>>, response |-> NoResponse]

\* the page as mounted: useState(null) for fileId and searchResults (0
\* here), no upload under way, no request sent
IdleClient ==
  [pc |-> "idle", processingStatus |-> "", doc |-> <<>>, file |-> NoFile,
   run |-> 0, fileId |-> NoFile, toast |-> "", requests |-> <<>>,
   searchResults |-> 0]

Init ==
  /\ client = IdleClient
  /\ blobs = [f \in FileIds |-> <<>>]
  /\ files = [f \in FileIds |-> "absent"]
  /\ nodes = <<>>
  /\ edges = <<>>
  /\ nextId = 1
  /\ runs = [r \in RunIds |-> IdleRun]
  /\ searches = [q \in SearchIds |-> IdleSearch]
  /\ faults = 0

\* whether the files table holds a row of this id; a deleted row leaves
\* "deleted" behind, an id being handed out once
Exists(f) == files[f] \in {"processing", "completed"}

\* the outcomes a store call may have: it fails while the budget lasts
Outcomes == IF faults < MaxFaults THEN {TRUE, FALSE} ELSE {TRUE}
Charge(ok) == faults' = IF ok THEN faults ELSE faults + 1

(***************************************************************************)
(* FileUpload.handleUpload: the blob upload and the file record insert     *)
(***************************************************************************)
CreateFile(f, doc) ==
  /\ files[f] = "absent"
  /\ \A g \in FileIds : g < f => files[g] # "absent"
  /\ blobs' = [blobs EXCEPT ![f] = doc]
  /\ files' = [files EXCEPT ![f] = "processing"]
  /\ UNCHANGED <<nodes, edges, nextId, runs, searches, faults, client>>

(***************************************************************************)
(* Deleting a files row, which the policy "Allow public delete from files" *)
(* lets any client do: nodes.file_id, edges.source_node_id and             *)
(* edges.target_node_id are declared ON DELETE CASCADE                     *)
(***************************************************************************)
\* a faulty variant of cascade: the referencing rows are left in place
cascadeNone(table, gone) == table

RECURSIVE cascade(_, _)
\* the table without the rows gone[i] marks, in table order
cascade(table, gone) ==
  IF table = <<>> THEN <<>>
  ELSE LET rest == cascade(SubSeq(table, 1, Len(table) - 1), gone)
       IN  IF gone[Len(table)] THEN rest ELSE Append(rest, table[Len(table)])

DeleteFile(f) ==
  /\ Exists(f)
  /\ LET dropped == {nodes[i].id : i \in {j \in 1..Len(nodes) : nodes[j].file_id = f}}
     IN  /\ nodes' = cascade(nodes, [i \in 1..Len(nodes) |-> nodes[i].file_id = f])
         /\ edges' = cascade(edges, [i \in 1..Len(edges) |->
                                      \/ edges[i].source_node_id \in dropped
                                      \/ edges[i].target_node_id \in dropped])
  /\ files' = [files EXCEPT ![f] = "deleted"]
  /\ UNCHANGED <<blobs, nextId, runs, searches, faults, client>>

(***************************************************************************)
(* process-file                                                            *)
(***************************************************************************)
RECURSIVE Flatten(_)
\* the concatenation of a sequence of sequences
Flatten(ss) ==
  IF ss = <<>> THEN <<>>
  ELSE Flatten(SubSeq(ss, 1, Len(ss) - 1)) \o ss[Len(ss)]

\* a faulty variant of top5: the comparator a.sim - b.sim
top5Ascending(i, embeddings) ==
  LET n == Len(embeddings)
      other(m) == IF m < i THEN m ELSE m + 1
      scores == [m \in 1..(n - 1) |->
                   LET sim == pfCosine(embeddings[i], embeddings[other(m)])
                   IN  <<-sim, [j |-> other(m), sim |-> sim]>>]
  IN  slice(sortDesc(scores), TopNeighbors)

\* a faulty variant of top5: the slice(0, 5) left out
top5NoSlice(i, embeddings) ==
  LET n == Len(embeddings)
      other(m) == IF m < i THEN m ELSE m + 1
      scores == [m \in 1..(n - 1) |->
                   LET sim == pfCosine(embeddings[i], embeddings[other(m)])
                   IN  <<sim, [j |-> other(m), sim |-> sim]>>]
  IN  sortDesc(scores)

\* scores.sort((a, b) => b.sim - a.sim).slice(0, 5) for source index i:
\* scores holds {j, sim} for every j # i, in the order of j
top5(i, embeddings) ==
  LET n == Len(embeddings)
      other(m) == IF m < i THEN m ELSE m + 1
      scores == [m \in 1..(n - 1) |->
                   LET sim == pfCosine(embeddings[i], embeddings[other(m)])
                   IN  <<sim, [j |-> other(m), sim |-> sim]>>]
  IN  slice(sortDesc(scores), TopNeighbors)

\* a faulty variant of buildEdges: the target named by its index t.j
buildEdgesByIndex(ids, embeddings) ==
  Flatten([i \in 1..Len(ids) |->
    LET top == top5(i, embeddings)
    IN  [m \in 1..Len(top) |->
           [source_node_id |-> ids[i],
            target_node_id |-> top[m].j,
            weight |-> top[m].sim]]])

\* the edge array of one run; ids[i] = 0 stands for a null node (a failed
\* insert), on which nodes[i].id throws
buildEdges(ids, embeddings) ==
  Flatten([i \in 1..Len(ids) |->
    LET top == top5(i, embeddings)
    IN  [m \in 1..Len(top) |->
           [source_node_id |-> ids[i],
            target_node_id |-> ids[top[m].j],
            weight |-> top[m].sim]]])

\* whether building the edge array reads .id of a null node
edgesThrow(ids, embeddings) ==
  \E i \in 1..Len(ids) :
    LET top == top5(i, embeddings)
    IN  \E m \in 1..Len(top) : ids[i] = 0 \/ ids[top[m].j] = 0

\* a faulty variant of afterCatch: the file is marked as failed
afterCatchFailed(table, f) ==
  IF table[f] \in {"processing", "completed"}
    THEN [table EXCEPT ![f] = "failed"]
    ELSE table

\* the files table after `catch (err)`, which logs the error and answers
\* with it: no store call is made
afterCatch(table, f) == table

\* const { fileId, fileName } = await req.json()
IngestRequest(r, f) ==
  /\ runs[r].pc = "idle"
  /\ runs' = [runs EXCEPT ![r] = [IdleRun EXCEPT !.pc = "download", !.fileId = f]]
  /\ UNCHANGED <<blobs, files, nodes, edges, nextId, searches, faults, client>>

\* storage.download(fileName); file.text(); splitIntoChunks(text).
\* A failed download leaves file null, and file.text() throws.
IngestDownload(r) ==
  /\ runs[r].pc = "download"
  /\ \E ok \in Outcomes :
       LET run == runs[r]
           found == ok /\ files[run.fileId] # "absent"
           chunks == splitIntoChunks(blobs[run.fileId])
           calls == Append(run.calls, [op |-> "download", ok |-> found])
       IN  /\ Charge(ok)
           /\ runs' = [runs EXCEPT ![r] =
                IF found
                  THEN [run EXCEPT !.pc = IF chunks = <<>> THEN "edges" ELSE "insert",
                                   !.chunks = chunks, !.calls = calls]
                  ELSE [run EXCEPT !.pc = "done", !.calls = calls,
                          !.response = ErrorResponse(
                            "Cannot read properties of null (reading 'text')")]]
           /\ files' = IF found THEN files ELSE afterCatch(files, run.fileId)
  /\ UNCHANGED <<blobs, nodes, edges, nextId, searches, client>>

\* a faulty variant of insertRow: no second row of one file and content
insertRowOnce(table, row) ==
  IF \E i \in 1..Len(table) :
       table[i].file_id = row.file_id /\ table[i].content = row.content
    THEN table
    ELSE Append(table, row)

\* from("nodes").insert({...}): the row is added to the table
insertRow(table, row) == Append(table, row)

\* one iteration of `for (const chunk of chunks)`: embed the chunk, insert
\* the node, push the returned row (null when the insert failed)
IngestInsertNode(r) ==
  /\ runs[r].pc = "insert"
  /\ Len(nodes) < MaxNodes
  /\ \E ok \in Outcomes :
       LET run == runs[r]
           k == Len(run.nodes) + 1
           chunk == run.chunks[k]
           embedding == pfLocalEmbedding(chunk)
           inserted == ok /\ Exists(run.fileId)
           row == [id |-> nextId, file_id |-> run.fileId, content |-> chunk,
                   metadata |-> EmptyMetadata, embedding |-> embedding]
       IN  /\ Charge(ok)
           /\ nodes' = IF inserted THEN insertRow(nodes, row) ELSE nodes
           /\ nextId' = IF inserted THEN nextId + 1 ELSE nextId
           /\ runs' = [runs EXCEPT ![r] =
                [run EXCEPT !.pc = IF k = Len(run.chunks) THEN "edges" ELSE "insert",
                            !.embeddings = Append(run.embeddings, embedding),
                            !.nodes = Append(run.nodes, IF inserted THEN nextId ELSE 0),
                            !.calls = Append(run.calls,
                                             [op |-> "insertNode", ok |-> inserted])]]
  /\ UNCHANGED <<blobs, files, edges, searches, client>>

\* the nodes.id values in the table, and the ones a batch of edges names:
\* source_node_id and target_node_id REFERENCES nodes(id), so an insert
\* naming a node that is not in the table fails as a whole
NodeIds == {nodes[i].id : i \in 1..Len(nodes)}
references(batch) ==
  {batch[i].source_node_id : i \in 1..Len(batch)}
    \cup {batch[i].target_node_id : i \in 1..Len(batch)}

\* the edge construction loops and from("edges").insert(edges), whose
\* result is not looked at
IngestInsertEdges(r) ==
  /\ runs[r].pc = "edges"
  /\ LET run == runs[r]
     IN  IF edgesThrow(run.nodes, run.embeddings)
           THEN /\ runs' = [runs EXCEPT ![r] =
                     [run EXCEPT !.pc = "done",
                        !.response = ErrorResponse(
                          "Cannot read properties of null (reading 'id')")]]
                /\ files' = afterCatch(files, run.fileId)
                /\ UNCHANGED <<edges, faults>>
           ELSE \E ok \in Outcomes :
                  LET built == buildEdges(run.nodes, run.embeddings)
                      inserted == ok /\ references(built) \subseteq NodeIds
                  IN  /\ Charge(ok)
                      /\ edges' = IF inserted THEN edges \o built ELSE edges
                      /\ runs' = [runs EXCEPT ![r] =
                           [run EXCEPT !.pc = "status", !.edges = built,
                              !.calls = Append(run.calls,
                                          [op |-> "insertEdges", ok |-> inserted])]]
                      /\ UNCHANGED files
  /\ UNCHANGED <<blobs, nodes, nextId, searches, client>>

\* from("files").update({ status: "completed" }).eq("id", fileId), whose
\* result is not looked at (an update that matches no row is no error), and
\* the success response
IngestUpdateStatus(r) ==
  /\ runs[r].pc = "status"
  /\ \E ok \in Outcomes :
       LET run == runs[r]
           updated == ok /\ Exists(run.fileId)
       IN  /\ Charge(ok)
           /\ files' = IF updated THEN [files EXCEPT ![run.fileId] = "completed"]
                       ELSE files
           /\ runs' = [runs EXCEPT ![r] =
                [run EXCEPT !.pc = "done",
                   !.calls = Append(run.calls, [op |-> "updateStatus", ok |-> ok]),
                   !.response = [kind |-> "ok", success |-> TRUE,
                                 nodesCreated |-> Len(run.nodes),
                                 edgesCreated |-> Len(run.edges)]]]
  /\ UNCHANGED <<blobs, nodes, edges, nextId, searches, client>>

(***************************************************************************)
(* hybrid-search                                                           *)
(***************************************************************************)
\* typedNodes.map(...).sort((a, b) => b.vectorScore - a.vectorScore)
\*   .slice(0, topK)
rankVector(typedNodes, queryEmbedding, topK) ==
  slice(sortDesc([i \in 1..Len(typedNodes) |->
          LET score == cosine(queryEmbedding, typedNodes[i].embedding)
          IN  <<score, [nodeId |-> typedNodes[i].id,
                        content |-> typedNodes[i].content,
                        vectorScore |-> score]>>]),
        topK)

\* the rows of a table (a sequence) that satisfy a filter, in table order
RECURSIVE selectWhere(_, _)
selectWhere(table, keep) ==
  IF table = <<>> THEN <<>>
  ELSE LET rest == selectWhere(SubSeq(table, 1, Len(table) - 1), keep)
           row == table[Len(table)]
       IN  IF keep[Len(table)] THEN Append(rest, row) ELSE rest

\* from("nodes").select("*").eq("file_id", fileId)
selectNodes(fileId) ==
  selectWhere(nodes, [i \in 1..Len(nodes) |-> nodes[i].file_id = fileId])

\* from("edges").select("*").in("source_node_id", topNodeIds)
selectEdges(topNodeIds) ==
  selectWhere(edges, [i \in 1..Len(edges) |-> edges[i].source_node_id \in topNodeIds])

\* typedEdges.map(edge => ({ nodeId: edge.target_node_id, ... }))
toGraphResults(typedEdges) ==
  [i \in 1..Len(typedEdges) |->
     [nodeId |-> typedEdges[i].target_node_id,
      sourceNode |-> typedEdges[i].source_node_id,
      graphScore |-> typedEdges[i].weight,
      distance |-> 1,
      path |-> <<typedEdges[i].source_node_id, typedEdges[i].target_node_id>>]]

Max(a, b) == IF a >= b THEN a ELSE b

\* a faulty variant of mergeOne: an entry is added for every graph result,
\* without the combined.get(g.nodeId) lookup
mergeOneAppend(combined, g, lookup) ==
  Append(combined,
         [nodeId |-> g.nodeId, content |-> lookup[g.nodeId],
          vectorScore |-> 0, graphScore |-> g.graphScore,
          connections |-> 1])

\* one iteration of `for (const g of graphResults)` on the Map combined,
\* held as the sequence of its values in insertion order
mergeOne(combined, g, lookup) ==
  IF \E i \in 1..Len(combined) : combined[i].nodeId = g.nodeId
    THEN [i \in 1..Len(combined) |->
            IF combined[i].nodeId = g.nodeId
              THEN [combined[i] EXCEPT
                      !.graphScore = Max(combined[i].graphScore, g.graphScore),
                      !.connections = combined[i].connections + 1]
              ELSE combined[i]]
    ELSE Append(combined,
                [nodeId |-> g.nodeId, content |-> lookup[g.nodeId],
                 vectorScore |-> 0, graphScore |-> g.graphScore,
                 connections |-> 1])

RECURSIVE mergeGraph(_, _, _)
mergeGraph(combined, graphResults, lookup) ==
  IF graphResults = <<>> THEN combined
  ELSE mergeOne(mergeGraph(combined, SubSeq(graphResults, 1, Len(graphResults) - 1),
                           lookup),
                graphResults[Len(graphResults)], lookup)

\* combined after `for (const v of vectorResults)` and the merge loop
merge(vectorResults, graphResults, lookup) ==
  mergeGraph([i \in 1..Len(vectorResults) |->
                [nodeId |-> vectorResults[i].nodeId,
                 content |-> vectorResults[i].content,
                 vectorScore |-> vectorResults[i].vectorScore,
                 graphScore |-> 0, connections |-> 0]],
             graphResults, lookup)

\* a faulty variant of hybridScore: the two weights exchanged
hybridScoreSwapped(result, vectorWeight, graphWeight) ==
  result.vectorScore * graphWeight + result.graphScore * vectorWeight

\* result.vectorScore * vectorWeight + result.graphScore * graphWeight
hybridScore(result, vectorWeight, graphWeight) ==
  result.vectorScore * vectorWeight + result.graphScore * graphWeight

\* the hybrid result of a combined entry
toHybrid(c, h) ==
  [nodeId |-> c.nodeId, content |-> c.content, vectorScore |-> c.vectorScore,
   graphScore |-> c.graphScore, connections |-> c.connections, hybridScore |-> h]

\* a faulty variant of rankHybrid: the comparator a.hybridScore - b.hybridScore
rankHybridAscending(combined, vectorWeight, graphWeight, topK) ==
  slice(sortDesc([i \in 1..Len(combined) |->
          LET h == hybridScore(combined[i], vectorWeight, graphWeight)
          IN  <<-h, toHybrid(combined[i], h)>>]),
        topK)

\* a faulty variant of rankHybrid: the slice(0, topK) left out
rankHybridNoSlice(combined, vectorWeight, graphWeight, topK) ==
  sortDesc([i \in 1..Len(combined) |->
    LET h == hybridScore(combined[i], vectorWeight, graphWeight)
    IN  <<h, toHybrid(combined[i], h)>>])

\* Array.from(combined.values()).map(...).sort(...).slice(0, topK)
rankHybrid(combined, vectorWeight, graphWeight, topK) ==
  slice(sortDesc([i \in 1..Len(combined) |->
          LET h == hybridScore(combined[i], vectorWeight, graphWeight)
          IN  <<h, toHybrid(combined[i], h)>>]),
        topK)

\* nodeLookup.get(id)?.content: the fetched nodes, then the extra nodes;
\* undefined content is the empty text here
contentLookup(typedNodes, extraNodes) ==
  [id \in {typedNodes[i].id : i \in 1..Len(typedNodes)}
          \cup {extraNodes[i].id : i \in 1..Len(extraNodes)}
          \cup {edges[i].target_node_id : i \in 1..Len(edges)} |->
     IF \E i \in 1..Len(typedNodes) : typedNodes[i].id = id
       THEN (CHOOSE n \in {typedNodes[i] : i \in 1..Len(typedNodes)} : n.id = id).content
     ELSE IF \E i \in 1..Len(extraNodes) : extraNodes[i].id = id
       THEN (CHOOSE n \in {extraNodes[i] : i \in 1..Len(extraNodes)} : n.id = id).content
     ELSE <<>>]

\* a faulty variant of noNodes: the check left out
noNodesUnchecked(fetched) == FALSE

\* if (!nodes || nodes.length === 0): a failed fetch (null) and an empty
\* result are both the empty sequence here
noNodes(fetched) == fetched = <<>>

\* const { query, fileId, vectorWeight, graphWeight, topK } = await req.json()
\* and localEmbedding(query), which reads text.length of an absent query
SearchRequest(q, query, fileId, vectorWeight, graphWeight, topK) ==
  /\ searches[q].pc = "idle"
  /\ LET req == [IdleSearch EXCEPT !.query = query, !.fileId = fileId,
                   !.vectorWeight = vectorWeight, !.graphWeight = graphWeight,
                   !.topK = topK]
     IN  searches' = [searches EXCEPT ![q] =
           IF query.given
             THEN [req EXCEPT !.pc = "nodes",
                              !.queryEmbedding = localEmbedding(query.text)]
             ELSE [req EXCEPT !.pc = "done",
                     !.response = ErrorResponse(
                       "Cannot read properties of undefined (reading 'length')")]]
  /\ UNCHANGED <<blobs, files, nodes, edges, nextId, runs, faults, client>>

\* a faulty variant of SearchFetchNodes: the fetched nodes are kept in a
\* variable the invocations share, and a fetch is skipped while it is set
SearchFetchNodesShared(q) ==
  /\ searches[q].pc = "nodes"
  /\ \E ok \in Outcomes :
       LET s == searches[q]
           held == {o \in SearchIds : searches[o].pc = "edges"}
           fetched == IF held # {} THEN searches[CHOOSE o \in held : TRUE].typedNodes
                      ELSE IF ok THEN selectNodes(s.fileId) ELSE <<>>
           calls == Append(s.calls, [op |-> "selectNodes", ok |-> ok])
       IN  /\ Charge(ok)
           /\ searches' = [searches EXCEPT ![q] =
                IF noNodes(fetched)
                  THEN [s EXCEPT !.pc = "done", !.calls = calls,
                          !.response = ErrorResponse("No nodes found for this file")]
                  ELSE [s EXCEPT !.pc = "edges", !.calls = calls,
                          !.typedNodes = fetched,
                          !.vectorResults =
                             rankVector(fetched, s.queryEmbedding, s.topK)]]
  /\ UNCHANGED <<blobs, files, nodes, edges, nextId, runs, client>>

\* typedNodes.map(node => ({ id, nodeType, content, label }))
graphNodes(typedNodes) ==
  [i \in 1..Len(typedNodes) |->
     [id |-> typedNodes[i].id, content |-> typedNodes[i].content,
      label |-> deriveNodeLabel(typedNodes[i])]]

\* the node fetch, `if (!nodes || nodes.length === 0) throw`, and the
\* vector ranking
SearchFetchNodes(q) ==
  /\ searches[q].pc = "nodes"
  /\ \E ok \in Outcomes :
       LET s == searches[q]
           fetched == IF ok THEN selectNodes(s.fileId) ELSE <<>>
           calls == Append(s.calls, [op |-> "selectNodes", ok |-> ok])
       IN  /\ Charge(ok)
           /\ searches' = [searches EXCEPT ![q] =
                IF noNodes(fetched)
                  THEN [s EXCEPT !.pc = "done", !.calls = calls,
                          !.response = ErrorResponse("No nodes found for this file")]
                  ELSE [s EXCEPT !.pc = "edges", !.calls = calls,
                          !.typedNodes = fetched,
                          !.vectorResults =
                             rankVector(fetched, s.queryEmbedding, s.topK)]]
  /\ UNCHANGED <<blobs, files, nodes, edges, nextId, runs, client>>

\* the edge fetch (`edges || []`), the fetch of the nodes the edges name
\* and the lookup lacks, the merge, the hybrid ranking and the response
SearchFetchEdges(q) ==
  /\ searches[q].pc = "edges"
  /\ \E ok \in Outcomes :
       LET s == searches[q]
           topNodeIds == {s.vectorResults[i].nodeId : i \in 1..Len(s.vectorResults)}
           typedEdges == IF ok THEN selectEdges(topNodeIds) ELSE <<>>
           known == {s.typedNodes[i].id : i \in 1..Len(s.typedNodes)}
           missingNodeIds ==
             ({typedEdges[i].source_node_id : i \in 1..Len(typedEdges)}
                \cup {typedEdges[i].target_node_id : i \in 1..Len(typedEdges)}) \ known
           extraNodes ==
             selectWhere(nodes, [i \in 1..Len(nodes) |-> nodes[i].id \in missingNodeIds])
           lookup == contentLookup(s.typedNodes, extraNodes)
           graphResults == toGraphResults(typedEdges)
           combined == merge(s.vectorResults, graphResults, lookup)
           calls ==
             Append(s.calls, [op |-> "selectEdges", ok |-> ok])
               \o (IF missingNodeIds = {} THEN <<>>
                   ELSE <<[op |-> "selectExtraNodes", ok |-> TRUE]>>)
       IN  /\ Charge(ok)
           /\ searches' = [searches EXCEPT ![q] =
                [s EXCEPT !.pc = "done", !.calls = calls,
                   !.response =
                      [kind |-> "ok",
                       vectorResults |-> s.vectorResults,
                       graphResults |-> graphResults,
                       hybridResults |-> rankHybrid(combined, s.vectorWeight,
                                                    s.graphWeight, s.topK),
                       graphNodes |-> graphNodes(s.typedNodes),
                       graphLinks |-> [i \in 1..Len(typedEdges) |->
                                         [source |-> typedEdges[i].source_node_id,
                                          target |-> typedEdges[i].target_node_id,
                                          weight |-> typedEdges[i].weight]]]]]
  /\ UNCHANGED <<blobs, files, nodes, edges, nextId, runs, client>>

(***************************************************************************)
(* The client: Index holds fileId, FileUpload.handleUpload uploads the     *)
(* blob, inserts the file record, invokes process-file and calls           *)
(* onFileProcessed (setFileId); QueryInterface.handleSearch invokes        *)
(* hybrid-search.  Request number q of the client is served by invocation  *)
(* q of hybrid-search.                                                     *)
(***************************************************************************)
\* the slider values useState([0.5]), in tenths
DefaultWeight == 5

\* the query strings typed: "", " ", "a"
ClientQueries == {<<>>, <<32>>, <<97>>}

\* the `catch` of handleUpload and its `finally`: a toast,
\* setProcessingStatus(""), setIsProcessing(false); fileId is not touched
uploadFailed(c, message) ==
  [c EXCEPT !.pc = "idle", !.processingStatus = "", !.toast = message]

\* handleUpload up to `if (uploadError) throw uploadError`; the button is
\* rendered when !isProcessing && !processingStatus
ClientUpload(doc) ==
  /\ client.pc = "idle"
  /\ client.processingStatus = ""
  /\ \E f \in FileIds : files[f] = "absent"
  /\ \E r \in RunIds : runs[r].pc = "idle"
  /\ \E ok \in Outcomes :
       /\ Charge(ok)
       /\ client' = IF ok
                      THEN [client EXCEPT !.pc = "record", !.doc = doc,
                              !.processingStatus = "Processing file..."]
                      ELSE uploadFailed(client, "upload failed")
  /\ UNCHANGED <<blobs, files, nodes, edges, nextId, runs, searches>>

\* from("files").insert({..., status: "processing"}).select().single() and
\* `if (fileError) throw fileError`
ClientCreateRecord ==
  /\ client.pc = "record"
  /\ \E ok \in Outcomes :
       LET f == CHOOSE g \in FileIds :
                  files[g] = "absent" /\ \A h \in FileIds : h < g => files[h] # "absent"
           r == CHOOSE s \in RunIds :
                  runs[s].pc = "idle" /\ \A t \in RunIds : t < s => runs[t].pc # "idle"
       IN  /\ Charge(ok)
           /\ blobs' = IF ok THEN [blobs EXCEPT ![f] = client.doc] ELSE blobs
           /\ files' = IF ok THEN [files EXCEPT ![f] = "processing"] ELSE files
           /\ client' = IF ok
                          THEN [client EXCEPT !.pc = "invoking", !.file = f, !.run = r,
                                  !.processingStatus =
                                     "Extracting data and generating embeddings..."]
                          ELSE uploadFailed(client, "insert failed")
  /\ UNCHANGED <<nodes, edges, nextId, runs, searches>>

\* a faulty variant of etlError: the invocation's error is not looked at
etlErrorUnchecked(ok, response) == FALSE

\* the error of functions.invoke("process-file"): the request failed, or
\* the function answered with status 500
etlError(ok, response) == ~ok \/ response.kind = "error"

\* the return of functions.invoke("process-file"), `if (etlError) throw
\* etlError`, setProcessingStatus("Complete!"), onFileProcessed(fileData.id)
ClientIngestReturn ==
  /\ client.pc = "invoking"
  /\ runs[client.run].pc = "done"
  /\ \E ok \in Outcomes :
       /\ Charge(ok)
       /\ client' = IF etlError(ok, runs[client.run].response)
                      THEN uploadFailed(client, "Failed to process file")
                      ELSE [client EXCEPT !.pc = "idle",
                              !.processingStatus = "Complete!",
                              !.fileId = client.file, !.toast = "Success!"]
  /\ UNCHANGED <<blobs, files, nodes, edges, nextId, runs, searches>>

\* if (!fileId)
noFile(fileId) == fileId = NoFile

\* handleSearch up to functions.invoke("hybrid-search", {body: {query,
\* fileId, vectorWeight, graphWeight, topK: 10}})
ClientSearch(query) ==
  /\ Len(client.requests) < Cardinality(SearchIds)
  /\ client' =
       IF trim(query) = <<>>
         THEN [client EXCEPT !.toast = "Please enter a search query"]
       ELSE IF noFile(client.fileId)
         THEN [client EXCEPT !.toast = "Please upload a file first"]
       ELSE [client EXCEPT !.requests =
               Append(client.requests,
                      [query |-> [given |-> TRUE, text |-> query],
                       fileId |-> client.fileId,
                       vectorWeight |-> DefaultWeight,
                       graphWeight |-> DefaultWeight, topK |-> 10,
                       returned |-> FALSE])]
  /\ UNCHANGED <<blobs, files, nodes, edges, nextId, runs, searches, faults>>

\* the hybrid-search handler receiving request q of the client
ServeSearch(q) ==
  /\ q <= Len(client.requests)
  /\ LET req == client.requests[q]
     IN  SearchRequest(q, req.query, req.fileId, req.vectorWeight,
                       req.graphWeight, req.topK)

\* the process-file handler receiving the client's invocation
ServeIngest ==
  /\ client.pc = "invoking"
  /\ IngestRequest(client.run, client.file)

\* the return of functions.invoke("hybrid-search"): `if (error) throw
\* error`, the insert into queries (its result is not looked at) and
\* onSearchResults, or the toast of the catch
ClientSearchReturn(q) ==
  /\ q <= Len(client.requests)
  /\ ~client.requests[q].returned
  /\ searches[q].pc = "done"
  /\ client' = [client EXCEPT
                  !.requests[q].returned = TRUE,
                  !.searchResults = IF searches[q].response.kind = "ok"
                                      THEN q ELSE client.searchResults,
                  !.toast = IF searches[q].response.kind = "ok"
                              THEN "Search Complete" ELSE "Search Error"]
  /\ UNCHANGED <<blobs, files, nodes, edges, nextId, runs, searches, faults>>

(***************************************************************************)
(* Specifications.  The two functions are invoked concurrently and by any  *)
(* caller.  Spec runs hybrid-search against the corpora one invocation of  *)
(* process-file leaves (and against every intermediate state of it);       *)
(* SpecIngest runs concurrent invocations of process-file; SpecGraph runs  *)
(* process-file on documents of more than TopNeighbors + 1 chunks;         *)
(* SpecChunk runs it on every short document with line terminators;        *)
(* SpecQueries runs concurrent invocations of hybrid-search on an ingested *)
(* file; SpecDelete adds the deletion of files; SpecEmbed runs both        *)
(* functions on texts with code units above 127; SpecLabel runs            *)
(* hybrid-search on nodes of any metadata; SpecClient runs the page and    *)
(* the two functions serving it.                                           *)
(***************************************************************************)
Next ==
  \/ \E f \in FileIds, doc \in Docs : CreateFile(f, doc)
  \/ \E f \in FileIds : IngestRequest(1, f)
  \/ IngestDownload(1)
  \/ IngestInsertNode(1)
  \/ IngestInsertEdges(1)
  \/ IngestUpdateStatus(1)
  \/ \E query \in Queries, fileId \in FileIds \cup {NoFile},
        vectorWeight \in Weights, graphWeight \in Weights, topK \in TopKs :
       SearchRequest(1, query, fileId, vectorWeight, graphWeight, topK)
  \/ SearchFetchNodes(1)
  \/ SearchFetchEdges(1)

Spec == Init /\ [][Next]_vars

NextIngest ==
  \/ \E f \in FileIds, doc \in Docs : CreateFile(f, doc)
  \/ \E r \in RunIds, f \in FileIds : IngestRequest(r, f)
  \/ \E r \in RunIds : IngestDownload(r)
  \/ \E r \in RunIds : IngestInsertNode(r)
  \/ \E r \in RunIds : IngestInsertEdges(r)
  \/ \E r \in RunIds : IngestUpdateStatus(r)

SpecIngest == Init /\ [][NextIngest]_vars

NextGraph ==
  \/ \E doc \in LongDocs : CreateFile(1, doc)
  \/ IngestRequest(1, 1)
  \/ IngestDownload(1)
  \/ IngestInsertNode(1)
  \/ IngestInsertEdges(1)
  \/ IngestUpdateStatus(1)

SpecGraph == Init /\ [][NextGraph]_vars

\* process-file on every document of ChunkDocs
NextChunk ==
  \/ \E doc \in ChunkDocs : CreateFile(1, doc)
  \/ IngestRequest(1, 1)
  \/ IngestDownload(1)
  \/ IngestInsertNode(1)
  \/ IngestInsertEdges(1)
  \/ IngestUpdateStatus(1)

SpecChunk == Init /\ [][NextChunk]_vars

\* the store after process-file has run once, without a failing call, on
\* file 1 holding the document "ababcd", and a second file holding "ab"
\* that has not been processed
InitQueries ==
  LET doc == <<97, 98, 97, 98, 99, 100>>
      chunks == splitIntoChunks(doc)
      embeddings == [i \in 1..Len(chunks) |-> pfLocalEmbedding(chunks[i])]
      ids == [i \in 1..Len(chunks) |-> i]
      built == buildEdges(ids, embeddings)
      op(name) == [op |-> name, ok |-> TRUE]
  IN  /\ blobs = [f \in FileIds |-> IF f = 1 THEN doc ELSE <<97, 98>>]
      /\ files = [f \in FileIds |-> IF f = 1 THEN "completed" ELSE "processing"]
      /\ nodes = [i \in 1..Len(chunks) |->
                    [id |-> i, file_id |-> 1, content |-> chunks[i],
                     metadata |-> EmptyMetadata, embedding |-> embeddings[i]]]
      /\ edges = built
      /\ nextId = Len(chunks) + 1
      /\ runs = [r \in RunIds |->
                   IF r = 1
                     THEN [pc |-> "done", fileId |-> 1, chunks |-> chunks,
                           embeddings |-> embeddings, nodes |-> ids, edges |-> built,
                           calls |-> <<op("download")>>
                                       \o [i \in 1..Len(chunks) |-> op("insertNode")]
                                       \o <<op("insertEdges"), op("updateStatus")>>,
                           response |-> [kind |-> "ok", success |-> TRUE,
                                         nodesCreated |-> Len(ids),
                                         edgesCreated |-> Len(built)]]
                     ELSE IdleRun]
      /\ searches = [q \in SearchIds |-> IdleSearch]
      /\ faults = 0
      /\ client = IdleClient

\* concurrent invocations of hybrid-search on that store
NextQueries ==
  \/ \E q \in SearchIds, query \in Queries, fileId \in FileIds,
        vectorWeight \in Weights, topK \in TopKs :
       SearchRequest(q, query, fileId, vectorWeight, 10, topK)
  \/ \E q \in SearchIds : SearchFetchNodes(q)
  \/ \E q \in SearchIds : SearchFetchEdges(q)

SpecQueries == InitQueries /\ [][NextQueries]_vars

\* process-file on a document of EmbedTexts and hybrid-search with a query
\* of EmbedTexts
NextEmbed ==
  \/ \E doc \in EmbedTexts : CreateFile(1, doc)
  \/ IngestRequest(1, 1)
  \/ IngestDownload(1)
  \/ IngestInsertNode(1)
  \/ IngestInsertEdges(1)
  \/ IngestUpdateStatus(1)
  \/ \E text \in EmbedTexts :
       SearchRequest(1, [given |-> TRUE, text |-> text], 1, 10, 10, 2)
  \/ SearchFetchNodes(1)
  \/ SearchFetchEdges(1)

SpecEmbed == Init /\ [][NextEmbed]_vars

\* a store whose file 1 has one node, of any content of LabelContents and
\* any metadata of LabelMetadata (process-file writes no metadata; the
\* policies let any client insert and update nodes)
InitLabel ==
  \E content \in LabelContents, metadata \in LabelMetadata :
    /\ blobs = [f \in FileIds |-> IF f = 1 THEN content ELSE <<>>]
    /\ files = [f \in FileIds |-> IF f = 1 THEN "completed" ELSE "absent"]
    /\ nodes = <<[id |-> 1, file_id |-> 1, content |-> content,
                  metadata |-> metadata, embedding |-> pfLocalEmbedding(content)]>>
    /\ edges = <<>>
    /\ nextId = 2
    /\ runs = [r \in RunIds |-> IdleRun]
    /\ searches = [q \in SearchIds |-> IdleSearch]
    /\ faults = 0
    /\ client = IdleClient

\* hybrid-search on that file
NextLabel ==
  \/ SearchRequest(1, [given |-> TRUE, text |-> <<97>>], 1, 10, 10, 2)
  \/ SearchFetchNodes(1)
  \/ SearchFetchEdges(1)

SpecLabel == InitLabel /\ [][NextLabel]_vars

\* file creation, process-file and file deletion in any interleaving
NextDelete ==
  \/ \E f \in FileIds, doc \in Docs : CreateFile(f, doc)
  \/ \E f \in FileIds : DeleteFile(f)
  \/ \E f \in FileIds : IngestRequest(1, f)
  \/ IngestDownload(1)
  \/ IngestInsertNode(1)
  \/ IngestInsertEdges(1)
  \/ IngestUpdateStatus(1)

SpecDelete == Init /\ [][NextDelete]_vars

\* the page used by one user, and the two functions serving it
NextClient ==
  \/ \E doc \in Docs : ClientUpload(doc)
  \/ ClientCreateRecord
  \/ ServeIngest
  \/ \E r \in RunIds : IngestDownload(r)
  \/ \E r \in RunIds : IngestInsertNode(r)
  \/ \E r \in RunIds : IngestInsertEdges(r)
  \/ \E r \in RunIds : IngestUpdateStatus(r)
  \/ ClientIngestReturn
  \/ \E query \in ClientQueries : ClientSearch(query)
  \/ \E q \in SearchIds : ServeSearch(q)
  \/ \E q \in SearchIds : SearchFetchNodes(q)
  \/ \E q \in SearchIds : SearchFetchEdges(q)
  \/ \E q \in SearchIds : ClientSearchReturn(q)

SpecClient == Init /\ [][NextClient]_vars

(***************************************************************************)
(* Properties                                                              *)
(***************************************************************************)
\* the ids of the nodes table rows of a file
NodeIdsOf(fileId) ==
  {nodes[i].id : i \in {j \in 1..Len(nodes) : nodes[j].file_id = fileId}}

\* the nodeId column of a result list
Ids(results) == [i \in 1..Len(results) |-> results[i].nodeId]

Finished(q) == searches[q].pc = "done"
Answered(q) == searches[q].pc = "done" /\ searches[q].response.kind = "ok"

\* query.trim() is empty: only white space and line terminators
isBlank(text) == \A i \in 1..Len(text) : text[i] \in WhiteSpace

NotFoundMessage == "No nodes found for this file"

C2_FailureAborts ==
  \A r \in RunIds :
    \A i \in 1..Len(runs[r].calls) :
      ~runs[r].calls[i].ok
        => /\ i = Len(runs[r].calls)
           /\ runs[r].pc = "done" => runs[r].response.kind = "error"

\* C3 as stated: a hybrid-search one of whose store calls failed answers
\* with an error and no result list.
C3_FailureAborts ==
  \A q \in SearchIds :
    (Finished(q) /\ \E i \in 1..Len(searches[q].calls) : ~searches[q].calls[i].ok)
      => searches[q].response.kind = "error"

\* C4 as stated: a request whose query is absent or blank, or whose fileId
\* is absent, is rejected before any embedding, store read or ranking.
C4_Validation ==
  \A q \in SearchIds :
    (/\ searches[q].pc # "idle"
     /\ \/ ~searches[q].query.given
        \/ isBlank(searches[q].query.text)
        \/ searches[q].fileId = NoFile)
      => /\ Finished(q)
         /\ searches[q].response.kind = "error"
         /\ searches[q].queryEmbedding = <<>>
         /\ searches[q].calls = <<>>
         /\ searches[q].vectorResults = <<>>

\* C5: every entry of hybridResults carries
\* hybridScore = vectorScore * vectorWeight + graphScore * graphWeight, with
\* its own two scores and the weights of the request.
C5_FusionExact ==
  \A q \in SearchIds :
    Answered(q) =>
      \A i \in 1..Len(searches[q].response.hybridResults) :
        LET h == searches[q].response.hybridResults[i]
        IN  h.hybridScore = h.vectorScore * searches[q].vectorWeight
                              + h.graphScore * searches[q].graphWeight

\* an answered search with both weights set returns an entry whose two
\* scores are both non-zero and differ
C5_Witness ==
  \E q \in SearchIds :
    /\ Answered(q)
    /\ searches[q].vectorWeight > 0
    /\ searches[q].graphWeight > 0
    /\ \E i \in 1..Len(searches[q].response.hybridResults) :
         LET h == searches[q].response.hybridResults[i]
         IN  h.vectorScore # 0 /\ h.graphScore # 0 /\ h.vectorScore # h.graphScore

\* the positions of graphResults whose target is the node id
EdgesInto(q, id) ==
  {i \in 1..Len(searches[q].response.graphResults) :
     searches[q].response.graphResults[i].nodeId = id}

\* the node id is a VectorResult of the search
IsVectorResult(q, id) ==
  \E i \in 1..Len(searches[q].response.vectorResults) :
    searches[q].response.vectorResults[i].nodeId = id

\* C6 as stated: a node that is a VectorResult and the target of fetched
\* edges has graphScore = the maximum weight of those edges and
\* connections = their number; a graph-only node has vectorScore 0; a
\* vector-only node has graphScore 0 and connections 0.
C6_MaxOverEdges ==
  \A q \in SearchIds :
    Answered(q) =>
      \A i \in 1..Len(searches[q].response.hybridResults) :
        LET h == searches[q].response.hybridResults[i]
            into == EdgesInto(q, h.nodeId)
            weights == {searches[q].response.graphResults[e].graphScore : e \in into}
        IN  /\ (IsVectorResult(q, h.nodeId) /\ into # {})
                 => /\ h.graphScore \in weights
                    /\ \A w \in weights : w <= h.graphScore
                    /\ h.connections = Cardinality(into)
            /\ ~IsVectorResult(q, h.nodeId) => h.vectorScore = 0
            /\ (IsVectorResult(q, h.nodeId) /\ into = {})
                 => h.graphScore = 0 /\ h.connections = 0

\* C7 as stated: with vectorWeight = 1 and graphWeight = 0 hybridResults
\* lists the same node ids in the same order as vectorResults.
C7_Original ==
  \A q \in SearchIds :
    (Answered(q) /\ searches[q].vectorWeight = 10 /\ searches[q].graphWeight = 0)
      => Ids(searches[q].response.hybridResults) = Ids(searches[q].response.vectorResults)

\* the position of a node id in a result list, 0 when it is not in it
PosIn(results, id) ==
  IF \E i \in 1..Len(results) : results[i].nodeId = id
    THEN CHOOSE i \in 1..Len(results) : results[i].nodeId = id
    ELSE 0

\* C7 amended: with vectorWeight = 1 and graphWeight = 0, the VectorResult
\* nodes that hybridResults lists come in their vectorResults order; the two
\* lists hold the same ids in the same order when no fetched edge leads to a
\* node outside vectorResults; and when no returned vectorScore is negative,
\* vectorResults is a prefix of hybridResults.  (A graph-only node has
\* hybridScore 0: it ranks above every VectorResult of negative score and
\* can push it out of the first topK.)
C7_VectorOrderKept ==
  \A q \in SearchIds :
    (Answered(q) /\ searches[q].vectorWeight = 10 /\ searches[q].graphWeight = 0)
      => LET vr == searches[q].response.vectorResults
             hr == searches[q].response.hybridResults
             gr == searches[q].response.graphResults
         IN  /\ \A i, j \in 1..Len(hr) :
                  (i < j /\ PosIn(vr, hr[i].nodeId) > 0 /\ PosIn(vr, hr[j].nodeId) > 0)
                    => PosIn(vr, hr[i].nodeId) < PosIn(vr, hr[j].nodeId)
             /\ (\A e \in 1..Len(gr) : PosIn(vr, gr[e].nodeId) > 0)
                  => Ids(hr) = Ids(vr)
             /\ (\A i \in 1..Len(vr) : vr[i].vectorScore >= 0)
                  => /\ Len(vr) <= Len(hr)
                     /\ SubSeq(Ids(hr), 1, Len(vr)) = Ids(vr)

\* a search with vectorWeight = 1 and graphWeight = 0 whose hybridResults
\* holds two VectorResult nodes and whose merge took in a graph-only node
C7_Witness ==
  \E q \in SearchIds :
    /\ Answered(q)
    /\ searches[q].vectorWeight = 10
    /\ searches[q].graphWeight = 0
    /\ Len(searches[q].response.vectorResults) >= 2
    /\ \E e \in 1..Len(searches[q].response.graphResults) :
         ~IsVectorResult(q, searches[q].response.graphResults[e].nodeId)
    /\ \E i, j \in 1..Len(searches[q].response.hybridResults) :
         /\ i < j
         /\ IsVectorResult(q, searches[q].response.hybridResults[i].nodeId)
         /\ IsVectorResult(q, searches[q].response.hybridResults[j].nodeId)

Min(a, b) == IF a <= b THEN a ELSE b

\* the position in the fetched nodes of the node a result names, 0 if none
PosOfNode(typedNodes, id) ==
  IF \E m \in 1..Len(typedNodes) : typedNodes[m].id = id
    THEN CHOOSE m \in 1..Len(typedNodes) : typedNodes[m].id = id
    ELSE 0

\* C8: vectorResults is the first min(topK, n) of the n fetched nodes by
\* descending cosine similarity to the query embedding: every entry is one
\* fetched node with that node's similarity, the scores do not increase,
\* entries of equal score come in fetched order, and a node left out scores
\* no higher than any entry and comes later in fetched order than the
\* entries of its own score.
C8_VectorRanking ==
  \A q \in SearchIds :
    searches[q].typedNodes # <<>> =>
      LET s == searches[q]
          vr == s.vectorResults
          n == Len(s.typedNodes)
          score(m) == cosine(localEmbedding(s.query.text), s.typedNodes[m].embedding)
          pos(i) == PosOfNode(s.typedNodes, vr[i].nodeId)
          listed == {pos(i) : i \in 1..Len(vr)}
      IN  /\ Len(vr) = Min(s.topK, n)
          /\ \A i \in 1..Len(vr) : pos(i) > 0 /\ vr[i].vectorScore = score(pos(i))
          /\ \A i, j \in 1..Len(vr) :
               i < j => /\ vr[i].vectorScore >= vr[j].vectorScore
                        /\ vr[i].vectorScore = vr[j].vectorScore => pos(i) < pos(j)
          /\ \A m \in (1..n) \ listed : \A i \in 1..Len(vr) :
               /\ score(m) <= vr[i].vectorScore
               /\ score(m) = vr[i].vectorScore => pos(i) < m
          /\ Answered(q) => s.response.vectorResults = vr

\* an answered search that cut the ranking at topK and returned two nodes
\* of equal score
C8_Witness ==
  \E q \in SearchIds :
    /\ Answered(q)
    /\ Len(searches[q].typedNodes) > searches[q].topK
    /\ Len(searches[q].response.vectorResults) = searches[q].topK
    /\ \E i, j \in 1..Len(searches[q].response.vectorResults) :
         /\ i < j
         /\ searches[q].response.vectorResults[i].vectorScore
              = searches[q].response.vectorResults[j].vectorScore

\* the merged entries of an answered search, in merge order
Combined(q) ==
  LET gr == searches[q].response.graphResults
  IN  merge(searches[q].response.vectorResults, gr,
            [id \in {gr[e].nodeId : e \in 1..Len(gr)} |-> <<>>])

\* the first edge of graphResults that leads to the node id
FirstEdgeInto(q, id) ==
  CHOOSE e \in EdgesInto(q, id) : \A d \in EdgesInto(q, id) : e <= d

\* C9: hybridResults is the first min(topK, m) of the m merged entries by
\* descending hybridScore: the scores do not increase, entries of equal
\* score come in merge order (the VectorResults in rank order, then the
\* graph-only nodes in the order of their first edge), and an entry left out
\* scores no higher than any entry listed.
C9_HybridRanking ==
  \A q \in SearchIds :
    Answered(q) =>
      LET vr == searches[q].response.vectorResults
          hr == searches[q].response.hybridResults
          combined == Combined(q)
          hs(c) == hybridScore(combined[c], searches[q].vectorWeight,
                               searches[q].graphWeight)
          pos(i) == PosIn(combined, hr[i].nodeId)
          listed == {pos(i) : i \in 1..Len(hr)}
      IN  /\ Len(hr) = Min(searches[q].topK, Len(combined))
          /\ \A i \in 1..Len(hr) : pos(i) > 0 /\ hr[i].hybridScore = hs(pos(i))
          /\ \A i, j \in 1..Len(hr) :
               i < j => /\ hr[i].hybridScore >= hr[j].hybridScore
                        /\ hr[i].hybridScore = hr[j].hybridScore => pos(i) < pos(j)
          /\ \A c \in (1..Len(combined)) \ listed : \A i \in 1..Len(hr) :
               /\ hs(c) <= hr[i].hybridScore
               /\ hs(c) = hr[i].hybridScore => pos(i) < c
          /\ \A i \in 1..Len(vr) : combined[i].nodeId = vr[i].nodeId
          /\ \A c, d \in (Len(vr) + 1)..Len(combined) :
               c < d => FirstEdgeInto(q, combined[c].nodeId)
                          < FirstEdgeInto(q, combined[d].nodeId)

\* an answered search whose merge held more than topK entries, one of them
\* graph-only, and whose hybridResults holds two entries of equal score
C9_Witness ==
  \E q \in SearchIds :
    /\ Answered(q)
    /\ Len(Combined(q)) > searches[q].topK
    /\ Len(Combined(q)) > Len(searches[q].response.vectorResults)
    /\ \E i, j \in 1..Len(searches[q].response.hybridResults) :
         /\ i < j
         /\ searches[q].response.hybridResults[i].hybridScore
              = searches[q].response.hybridResults[j].hybridScore

\* the edge array a run built, once it is built
Emitted(r) == IF runs[r].pc \in {"status", "done"} THEN runs[r].edges ELSE <<>>

\* C10: in the edge array of a run every source node has at most
\* TopNeighbors = 5 edges, no edge has its source as its target, and the
\* edges of one source come in order of non-increasing weight; the edges
\* table holds the same.
C10_KnnBound ==
  /\ \A r \in RunIds :
       LET es == Emitted(r)
       IN  /\ \A i \in 1..Len(es) : es[i].source_node_id # es[i].target_node_id
           /\ \A i \in 1..Len(es) :
                Cardinality({j \in 1..Len(es) :
                               es[j].source_node_id = es[i].source_node_id})
                  <= TopNeighbors
           /\ \A i, j \in 1..Len(es) :
                (i < j /\ es[i].source_node_id = es[j].source_node_id)
                  => es[i].weight >= es[j].weight
  /\ \A i \in 1..Len(edges) :
       /\ edges[i].source_node_id # edges[i].target_node_id
       /\ Cardinality({j \in 1..Len(edges) :
                         edges[j].source_node_id = edges[i].source_node_id})
            <= TopNeighbors

\* a run over seven nodes has emitted TopNeighbors edges for each of them,
\* leaving one neighbor of each out, with edges of different weights
C10_Witness ==
  \E r \in RunIds :
    /\ Len(runs[r].nodes) = TopNeighbors + 2
    /\ Len(Emitted(r)) = TopNeighbors * (TopNeighbors + 2)
    /\ edges = Emitted(r)
    /\ \E i, j \in 1..Len(Emitted(r)) :
         /\ Emitted(r)[i].source_node_id = Emitted(r)[j].source_node_id
         /\ Emitted(r)[i].weight > Emitted(r)[j].weight

\* a run whose edge array was built and handed to the store
Built(r) == runs[r].pc \in {"status", "done"} /\ runs[r].response.kind # "error"

\* the indices of the run's nodes that the edges of source index i lead to
TargetsOf(r, i) ==
  {j \in 1..Len(runs[r].nodes) :
     \E e \in 1..Len(runs[r].edges) :
       /\ runs[r].edges[e].source_node_id = runs[r].nodes[i]
       /\ runs[r].edges[e].target_node_id = runs[r].nodes[j]}

\* C11: for each node i of a run of n nodes, the edges of source i lead to
\* min(TopNeighbors, n - 1) different nodes of the run other than i, one
\* edge each; a node left out is no more similar to i than any target, and
\* comes later in ingestion order than the targets of its own similarity;
\* and the weight of every edge is the cosine similarity of the embeddings
\* of its source and its target.
C11_NearestNeighbors ==
  \A r \in RunIds :
    Built(r) =>
      LET run == runs[r]
          n == Len(run.nodes)
          sim(i, j) == pfCosine(run.embeddings[i], run.embeddings[j])
      IN  \A i \in 1..n :
            LET out == {e \in 1..Len(run.edges) :
                          run.edges[e].source_node_id = run.nodes[i]}
                targets == TargetsOf(r, i)
            IN  /\ Cardinality(out) = Min(TopNeighbors, n - 1)
                /\ Cardinality(targets) = Cardinality(out)
                /\ i \notin targets
                /\ \A e \in out :
                     \E j \in targets :
                       /\ run.edges[e].target_node_id = run.nodes[j]
                       /\ run.edges[e].weight = sim(i, j)
                /\ \A j \in targets : \A k \in (1..n) \ (targets \cup {i}) :
                     /\ sim(i, k) <= sim(i, j)
                     /\ sim(i, k) = sim(i, j) => j < k

\* a run of seven nodes built its edges: some node has a neighbor left out
\* that is as similar to it as one of its targets, and some node has
\* targets of different similarity
C11_Witness ==
  \E r \in RunIds :
    /\ Built(r)
    /\ Len(runs[r].nodes) = TopNeighbors + 2
    /\ Len(runs[r].edges) > 0
    /\ \E i \in 1..Len(runs[r].nodes) :
         \E j \in TargetsOf(r, i) :
           \E k \in (1..Len(runs[r].nodes)) \ (TargetsOf(r, i) \cup {i}) :
             pfCosine(runs[r].embeddings[i], runs[r].embeddings[k])
               = pfCosine(runs[r].embeddings[i], runs[r].embeddings[j])
    /\ \E i \in 1..Len(runs[r].nodes) :
         \E j, k \in TargetsOf(r, i) :
           pfCosine(runs[r].embeddings[i], runs[r].embeddings[j])
             > pfCosine(runs[r].embeddings[i], runs[r].embeddings[k])

\* the nodes table rows of one id
RowsOf(id) == {i \in 1..Len(nodes) : nodes[i].id = id}

\* C12: every edge in the edges table has its source and its target in the
\* nodes table, in rows of one and the same file.
C12_EdgesWithinFile ==
  \A e \in 1..Len(edges) :
    \E i \in RowsOf(edges[e].source_node_id) :
      \E j \in RowsOf(edges[e].target_node_id) :
        nodes[i].file_id = nodes[j].file_id

\* the edges table holds edges of two files whose nodes were inserted in
\* turns
C12_Witness ==
  /\ \E d, e \in 1..Len(edges) :
       \E i \in RowsOf(edges[d].source_node_id) :
         \E j \in RowsOf(edges[e].source_node_id) :
           nodes[i].file_id # nodes[j].file_id
  /\ \E i, j, k \in 1..Len(nodes) :
       /\ i < j /\ j < k
       /\ nodes[i].file_id = nodes[k].file_id
       /\ nodes[i].file_id # nodes[j].file_id

\* a run that has read its file's text and split it into chunks
Chunked(r) == runs[r].calls # <<>> /\ runs[r].calls[1].ok

\* C13: the chunks of a text are substrings of at most ChunkLimit (500 in
\* the source) code units, all but the last of exactly that length, whose
\* concatenation in order is the text.
C13_ChunksCover ==
  \A r \in RunIds :
    Chunked(r) =>
      LET chunks == runs[r].chunks
      IN  /\ Flatten(chunks) = blobs[runs[r].fileId]
          /\ \A i \in 1..Len(chunks) : Len(chunks[i]) \in 1..ChunkLimit
          /\ \A i \in 1..(Len(chunks) - 1) : Len(chunks[i]) = ChunkLimit

\* the graphResults entry of the edges table row e
entryOf(e) ==
  [nodeId |-> edges[e].target_node_id,
   sourceNode |-> edges[e].source_node_id,
   graphScore |-> edges[e].weight,
   distance |-> 1,
   path |-> <<edges[e].source_node_id, edges[e].target_node_id>>]

\* the step of search q that fetches the edges and answers
Expands(q) == searches[q].pc = "edges" /\ searches'[q].pc = "done"

\* graphResults holds each of these entries as often as the edges table
\* holds an edge of it with its source in vectorResults
OneEntryPerEdge(graphResults, vectorResults) ==
  LET out == {e \in 1..Len(edges) :
                \E v \in 1..Len(vectorResults) :
                  vectorResults[v].nodeId = edges[e].source_node_id}
  IN  \A x \in {entryOf(e) : e \in out}
                 \cup {graphResults[i] : i \in 1..Len(graphResults)} :
        Cardinality({i \in 1..Len(graphResults) : graphResults[i] = x})
          = Cardinality({e \in out : entryOf(e) = x})

\* C14: when a search answers, graphResults holds exactly one entry for
\* each row of the edges table whose source is a node of vectorResults, with
\* nodeId the target, sourceNode the source, graphScore the weight,
\* distance 1 and path <<source, target>>, and nothing else.
C14_OneHop ==
  [][\A q \in SearchIds :
       Expands(q) =>
         OneEntryPerEdge(searches'[q].response.graphResults,
                         searches[q].vectorResults)]_vars

\* every chunk of the run has its node in the nodes table
NodesPersisted(r) ==
  /\ Len(runs[r].nodes) = Len(runs[r].chunks)
  /\ \A i \in 1..Len(runs[r].nodes) : runs[r].nodes[i] \in NodeIds

\* every edge the run built is in the edges table
EdgesPersisted(r) ==
  /\ Built(r)
  /\ \A e \in 1..Len(runs[r].edges) :
       \E d \in 1..Len(edges) : edges[d] = runs[r].edges[e]

\* C15: a run has all its nodes in the store once one of its edges is in
\* the store, and a file whose status is completed has a run that has all
\* its nodes and all its edges in the store.
C15_CompletedLast ==
  /\ \A r \in RunIds :
       (\E e \in 1..Len(runs[r].edges) : \E d \in 1..Len(edges) :
          edges[d] = runs[r].edges[e])
         => NodesPersisted(r)
  /\ \A f \in FileIds :
       files[f] = "completed" =>
         \E r \in RunIds :
           /\ runs[r].fileId = f
           /\ runs[r].pc = "done"
           /\ NodesPersisted(r)
           /\ EdgesPersisted(r)

\* a run that ended with an error response
Failed(r) == runs[r].pc = "done" /\ runs[r].response.kind = "error"

\* the nodes the run inserted are in the nodes table
NodesRemain(r) ==
  \A i \in 1..Len(runs[r].nodes) :
    runs[r].nodes[i] # 0 => runs[r].nodes[i] \in NodeIds

\* as stated: after a run on an existing file has ended with an error the
\* status of the file is processing and the run's nodes are in the store
C16_Original ==
  \A r \in RunIds :
    (Failed(r) /\ Exists(runs[r].fileId))
      => files[runs[r].fileId] = "processing" /\ NodesRemain(r)

\* C16: no file ever has a status other than processing and completed; after
\* a run on an existing file has ended with an error, the status of the file
\* is processing unless another run on the file has answered with success,
\* the nodes the run inserted are in the store, and the run has stored no
\* edge.
C16_NoRollback ==
  /\ \A f \in FileIds : files[f] \in {"absent", "deleted", "processing", "completed"}
  /\ \A r \in RunIds :
       (Failed(r) /\ Exists(runs[r].fileId)) =>
         /\ files[runs[r].fileId] = "completed" =>
              \E o \in RunIds \ {r} :
                /\ runs[o].fileId = runs[r].fileId
                /\ runs[o].pc = "done"
                /\ runs[o].response.kind = "ok"
         /\ NodesRemain(r)
         /\ runs[r].edges = <<>>

\* a run ended with an error after it had inserted nodes, on a file that
\* another run has completed
C16_Witness ==
  \E r \in RunIds :
    /\ Failed(r)
    /\ \E i \in 1..Len(runs[r].nodes) : runs[r].nodes[i] \in NodeIds
    /\ files[runs[r].fileId] = "completed"

\* what the request of search q is answered with by an invocation that
\* runs alone on the present store and whose store calls have the outcomes
\* okNodes and okEdges
Alone(q, okNodes, okEdges) ==
  LET s == searches[q]
      fetched == IF okNodes THEN selectNodes(s.fileId) ELSE <<>>
      vectorResults == rankVector(fetched, localEmbedding(s.query.text), s.topK)
      typedEdges ==
        IF okEdges
          THEN selectEdges({vectorResults[i].nodeId : i \in 1..Len(vectorResults)})
          ELSE <<>>
      graphResults == toGraphResults(typedEdges)
      combined == merge(vectorResults, graphResults, contentLookup(fetched, <<>>))
  IN  IF ~s.query.given
        THEN ErrorResponse("Cannot read properties of undefined (reading 'length')")
      ELSE IF fetched = <<>>
        THEN ErrorResponse("No nodes found for this file")
      ELSE [kind |-> "ok",
            vectorResults |-> vectorResults,
            graphResults |-> graphResults,
            hybridResults |-> rankHybrid(combined, s.vectorWeight, s.graphWeight,
                                         s.topK),
            graphNodes |-> graphNodes(fetched),
            graphLinks |-> [i \in 1..Len(typedEdges) |->
                              [source |-> typedEdges[i].source_node_id,
                               target |-> typedEdges[i].target_node_id,
                               weight |-> typedEdges[i].weight]]]

\* whether the i-th store call of search q succeeded (TRUE if not made)
CallOk(q, i) == Len(searches[q].calls) < i \/ searches[q].calls[i].ok

\* C17: no step of a search changes the files, nodes or edges relation (or
\* the stored texts), and every search that has finished, whatever other
\* searches ran beside it, has the answer its request gets alone on the
\* same store.
C17_ReadOnly ==
  /\ [](\A q \in SearchIds :
          Finished(q) => searches[q].response = Alone(q, CallOk(q, 1), CallOk(q, 2)))
  /\ [][searches' # searches => UNCHANGED <<blobs, files, nodes, edges, nextId>>]_vars

\* a search has answered with graph results while another search, with a
\* different request, has fetched its nodes and not yet answered
C17_Witness ==
  /\ Answered(1)
  /\ searches[1].response.graphResults # <<>>
  /\ searches[2].pc = "edges"
  /\ searches[2].query # searches[1].query
  /\ searches[2].topK # searches[1].topK

\* a run that answered with success and none of whose store calls failed
Succeeded(r) ==
  /\ runs[r].pc = "done"
  /\ runs[r].response.kind = "ok"
  /\ \A i \in 1..Len(runs[r].calls) : runs[r].calls[i].ok

\* the rows of the nodes table that belong to file f
NodeRowsOf(f) == {i \in 1..Len(nodes) : nodes[i].file_id = f}

\* the rows of the edges table whose source is a node of file f
EdgeRowsOf(f) ==
  {e \in 1..Len(edges) : edges[e].source_node_id \in NodeIdsOf(f)}

\* C18: after two successful runs on one file whose text has n chunks, the
\* file has 2n nodes, every chunk content twice as often as among the
\* chunks, and twice the edges of one run; the edges of each run join nodes
\* of that run only, and the two runs share no node.
C18_NotIdempotent ==
  (/\ \A r \in RunIds : Succeeded(r)
   /\ runs[1].fileId = runs[2].fileId)
    => LET f == runs[1].fileId
           chunks == runs[1].chunks
           n == Len(chunks)
           own(r) == {runs[r].nodes[i] : i \in 1..Len(runs[r].nodes)}
       IN  /\ runs[2].chunks = chunks
           /\ Cardinality(NodeRowsOf(f)) = 2 * n
           /\ \A c \in 1..n :
                Cardinality({i \in NodeRowsOf(f) : nodes[i].content = chunks[c]})
                  = 2 * Cardinality({d \in 1..n : chunks[d] = chunks[c]})
           /\ Len(runs[2].edges) = Len(runs[1].edges)
           /\ Cardinality(EdgeRowsOf(f)) = 2 * Len(runs[1].edges)
           /\ own(1) \cap own(2) = {}
           /\ \A r \in RunIds :
                /\ own(r) \subseteq NodeIdsOf(f)
                /\ references(runs[r].edges) \subseteq own(r)
                /\ EdgesPersisted(r)
           /\ \A e \in EdgeRowsOf(f) :
                \E r \in RunIds : {edges[e].source_node_id, edges[e].target_node_id}
                                    \subseteq own(r)

\* two runs have succeeded on one file of three chunks
C18_Witness ==
  /\ \A r \in RunIds : Succeeded(r)
  /\ runs[1].fileId = runs[2].fileId
  /\ Len(runs[1].chunks) = 3
  /\ Len(edges) = 12

\* the rows of the nodes table that run r inserted
OwnRows(r) ==
  {i \in 1..Len(nodes) : \E k \in 1..Len(runs[r].nodes) : nodes[i].id = runs[r].nodes[k]}

\* a successful run on a text of n chunks has stored n nodes and at most
\* n * min(TopNeighbors, n - 1) edges
CountsByChunks(r) ==
  LET n == Len(runs[r].chunks)
  IN  /\ Cardinality(OwnRows(r)) = n
      /\ Len(runs[r].edges) <= n * Min(TopNeighbors, n - 1)
      /\ EdgesPersisted(r)

\* C19: a successful run on a text of n chunks has stored n nodes and at
\* most n * min(TopNeighbors, n - 1) edges; on a text of 1 to ChunkLimit
\* (500 in the source) code units it has stored one node and no edge, and
\* on a text of three chunks three nodes and at most six edges.
C19_Counts ==
  \A r \in RunIds :
    Succeeded(r) =>
      LET text == blobs[runs[r].fileId]
      IN  /\ CountsByChunks(r)
          /\ Len(text) \in 1..ChunkLimit =>
               Cardinality(OwnRows(r)) = 1 /\ runs[r].edges = <<>>
          /\ Len(runs[r].chunks) = 3 =>
               Cardinality(OwnRows(r)) = 3 /\ Len(runs[r].edges) <= 6

\* C20: every row of the nodes table belongs to a file that is in the files
\* table, and every row of the edges table has its source and its target in
\* the nodes table; so a deleted file has no node left, and no edge of its
\* nodes is left.
C20_CascadeDelete ==
  /\ \A i \in 1..Len(nodes) : Exists(nodes[i].file_id)
  /\ \A e \in 1..Len(edges) :
       /\ edges[e].source_node_id \in NodeIds
       /\ edges[e].target_node_id \in NodeIds

\* a file was deleted after a run had stored nodes and edges for it
C20_Witness ==
  \E r \in RunIds :
    /\ runs[r].fileId \in FileIds
    /\ files[runs[r].fileId] = "deleted"
    /\ runs[r].edges # <<>>
    /\ \E i \in 1..Len(runs[r].calls) :
         runs[r].calls[i].op = "insertEdges" /\ runs[r].calls[i].ok

\* the chunks run r has embedded, and whether search q has embedded a query
Embedded(r) == 1..Len(runs[r].embeddings)
Asked(q) == searches[q].pc # "idle" /\ searches[q].query.given

\* C21: the embedding process-file made of a chunk is the one hybrid-search
\* makes of the same text, and the embedding hybrid-search made of a query
\* is the one process-file makes of it: the seeds after the FNV-1a loop are
\* equal and so is the xorshift value of every dimension; two embeddings
\* made of one text, at any two times, are equal.
C21_SameEmbedder ==
  /\ \A r \in RunIds : \A k \in Embedded(r) :
       LET t == runs[r].chunks[k]
       IN  /\ runs[r].embeddings[k] = localEmbedding(t)
           /\ pfSeedLoop(t, 1, FnvOffsetBasis) = seedLoop(t, 1, FnvOffsetBasis)
           /\ \A i \in 0..(dim - 1) :
                pfScramble(pfSeedLoop(t, 1, FnvOffsetBasis), i)
                  = scramble(seedLoop(t, 1, FnvOffsetBasis), i)
  /\ \A q \in SearchIds :
       Asked(q) =>
         /\ searches[q].queryEmbedding = pfLocalEmbedding(searches[q].query.text)
         /\ \A r \in RunIds : \A k \in Embedded(r) :
              runs[r].chunks[k] = searches[q].query.text
                => runs[r].embeddings[k] = searches[q].queryEmbedding
  /\ \A i \in 1..Len(nodes) :
       /\ nodes[i].embedding = localEmbedding(nodes[i].content)
       /\ \A j \in 1..Len(nodes) :
            nodes[i].content = nodes[j].content
              => nodes[i].embedding = nodes[j].embedding

\* a search has embedded as its query the text a run had embedded as a
\* chunk and stored, a text with a code unit above 255
C21_Witness ==
  \E q \in SearchIds : \E i \in 1..Len(nodes) :
    /\ Asked(q)
    /\ searches[q].query.text = nodes[i].content
    /\ searches[q].queryEmbedding = nodes[i].embedding
    /\ \E c \in 1..Len(nodes[i].content) : nodes[i].content[c] > 255

\* the node of the store a visualization entry stands for
StoredNode(id) == CHOOSE n \in {nodes[i] : i \in 1..Len(nodes)} : n.id = id

\* the metadata keys in the order of the claim, then the items of
\* metadata.keywords when it is an array
LabelCandidates(metadata) ==
  IF metadata.type # "object" THEN <<>>
  ELSE <<metadata.fields["label"], metadata.fields["title"],
         metadata.fields["name"], metadata.fields["keyword"],
         metadata.fields["heading"], metadata.fields["topic"]>>
       \o (IF metadata.fields["keywords"].type = "array"
             THEN metadata.fields["keywords"].items ELSE <<>>)

\* the label the content gives: its first three words joined by a space, cut
\* to 40 code units, trimmed and followed by "..." when longer; the node id
\* when the content has no word
ContentLabel(node) ==
  LET words == splitWords(trim(collapse(node.content)), <<>>, <<>>)
      first == join(SubSeq(words, 1, IF Len(words) < 3 THEN Len(words) ELSE 3))
  IN  IF words = <<>> THEN idText(node.id)
      ELSE IF Len(first) > 40 THEN trim(SubSeq(first, 1, 40)) \o <<46, 46, 46>>
      ELSE first

\* C22 as stated: the label of a visualization entry is the first candidate
\* that is a string of at least one code unit, as it stands; without one, the
\* label the content gives.
C22_Original ==
  \A q \in SearchIds :
    Answered(q) =>
      \A i \in 1..Len(searches[q].response.graphNodes) :
        LET entry == searches[q].response.graphNodes[i]
            node == StoredNode(entry.id)
            cands == LabelCandidates(node.metadata)
            strings == {k \in 1..Len(cands) :
                          cands[k].type = "string" /\ cands[k].text # <<>>}
        IN  entry.label =
              IF strings # {}
                THEN cands[CHOOSE k \in strings : \A o \in strings : k <= o].text
                ELSE ContentLabel(node)

\* C22 amended: the label of a visualization entry is, trimmed, the first
\* candidate that is a string with a code unit other than white space (label,
\* title, name, keyword, heading, topic in that order, then the items of
\* metadata.keywords); without one, the first three words of the content
\* (cut to 40 code units and followed by "..." when longer), and the node id
\* when the content has no word.  A node whose metadata label is "Foo" has
\* the label "Foo" whatever its content and other fields.
C22_LabelPriority ==
  \A q \in SearchIds :
    Answered(q) =>
      \A i \in 1..Len(searches[q].response.graphNodes) :
        LET entry == searches[q].response.graphNodes[i]
            node == StoredNode(entry.id)
            cands == LabelCandidates(node.metadata)
            strings == {k \in 1..Len(cands) :
                          cands[k].type = "string" /\ ~isBlank(cands[k].text)}
        IN  /\ entry.label =
                 IF strings # {}
                   THEN trim(cands[CHOOSE k \in strings : \A o \in strings : k <= o].text)
                   ELSE ContentLabel(node)
            /\ (node.metadata.type = "object"
                  /\ node.metadata.fields["label"] = Str(<<70, 111, 111>>))
                 => entry.label = <<70, 111, 111>>

\* a search has answered with the label "T" for a node whose metadata label
\* is " " and whose title is "T"
C22_Witness ==
  \E q \in SearchIds :
    /\ Answered(q)
    /\ \E i \in 1..Len(searches[q].response.graphNodes) :
         LET entry == searches[q].response.graphNodes[i]
             node == StoredNode(entry.id)
         IN  /\ node.metadata.type = "object"
             /\ node.metadata.fields["label"] = Str(<<32>>)
             /\ node.metadata.fields["title"] = Str(<<84>>)
             /\ entry.label = <<84>>

\* the ids of the entries of graphVisualization.nodes
VisualIds(q) ==
  {searches[q].response.graphNodes[i].id :
     i \in 1..Len(searches[q].response.graphNodes)}

\* C23: when a hybrid-search has answered, graphVisualization.nodes has one
\* entry for every node fetched for the file scope, with its resolved label,
\* graphVisualization.links has one entry per fetched edge, with its source,
\* target and weight, and the source and the target of every link are ids of
\* entries of graphVisualization.nodes.
C23_Original ==
  \A q \in SearchIds :
    Answered(q) =>
      LET resp == searches[q].response
          fetched == searches[q].typedNodes
      IN  /\ Len(resp.graphNodes) = Len(fetched)
          /\ \A i \in 1..Len(fetched) :
               /\ resp.graphNodes[i].id = fetched[i].id
               /\ resp.graphNodes[i].label = deriveNodeLabel(fetched[i])
          /\ \A i, j \in 1..Len(resp.graphNodes) :
               resp.graphNodes[i].id = resp.graphNodes[j].id => i = j
          /\ Len(resp.graphLinks) = Len(resp.graphResults)
          /\ \A i \in 1..Len(resp.graphLinks) :
               /\ resp.graphLinks[i].source = resp.graphResults[i].sourceNode
               /\ resp.graphLinks[i].target = resp.graphResults[i].nodeId
               /\ resp.graphLinks[i].weight = resp.graphResults[i].graphScore
          /\ \A i \in 1..Len(resp.graphLinks) :
               /\ resp.graphLinks[i].source \in VisualIds(q)
               /\ resp.graphLinks[i].target \in VisualIds(q)

\* the rows of the edges table that run r inserted: the ones whose source is
\* a node the run inserted
OwnEdgeRows(r) ==
  {e \in 1..Len(edges) :
     \E k \in 1..Len(runs[r].nodes) : edges[e].source_node_id = runs[r].nodes[k]}

\* C24: when process-file has answered with success, nodesCreated is the
\* number of rows of the nodes table the run inserted and edgesCreated the
\* number of rows of the edges table it inserted, store calls that failed
\* included.
C24_CountsPersisted ==
  \A r \in RunIds :
    (runs[r].pc = "done" /\ runs[r].response.kind = "ok")
      => /\ runs[r].response.nodesCreated = Cardinality(OwnRows(r))
         /\ runs[r].response.edgesCreated = Cardinality(OwnEdgeRows(r))

\* C25: when a hybrid-search has answered, no node id is twice in
\* hybridResults, and every node id in hybridResults is the id of a vector
\* result or the target of a graph result whose source is the id of a vector
\* result.
C25_MergedByNodeId ==
  \A q \in SearchIds :
    Answered(q) =>
      LET resp == searches[q].response
          hybrid == Ids(resp.hybridResults)
          vector == {resp.vectorResults[i].nodeId : i \in 1..Len(resp.vectorResults)}
          reached == {resp.graphResults[i].nodeId :
                        i \in {j \in 1..Len(resp.graphResults) :
                                 resp.graphResults[j].sourceNode \in vector}}
      IN  /\ \A i, j \in 1..Len(hybrid) : hybrid[i] = hybrid[j] => i = j
          /\ \A i \in 1..Len(hybrid) : hybrid[i] \in vector \cup reached

\* a search has answered with a hybrid result that is no vector result and
\* is the target of two graph results, and with a hybrid result that is a
\* vector result and the target of a graph result
C25_Witness ==
  \E q \in SearchIds :
    /\ Answered(q)
    /\ LET resp == searches[q].response
           vector == {resp.vectorResults[i].nodeId : i \in 1..Len(resp.vectorResults)}
           targets(id) == {j \in 1..Len(resp.graphResults) :
                             resp.graphResults[j].nodeId = id}
       IN  /\ \E i \in 1..Len(resp.hybridResults) :
                /\ resp.hybridResults[i].nodeId \notin vector
                /\ Cardinality(targets(resp.hybridResults[i].nodeId)) = 2
           /\ \E i \in 1..Len(resp.hybridResults) :
                /\ resp.hybridResults[i].nodeId \in vector
                /\ targets(resp.hybridResults[i].nodeId) # {}

\* an invocation of process-file for file f has answered with success
IngestReturned(f) ==
  \E r \in RunIds :
    runs[r].fileId = f /\ runs[r].pc = "done" /\ runs[r].response.kind = "ok"

\* the page's fileId is null until an invocation of process-file for the
\* file has answered with success, and every hybrid-search request sent or
\* being served is for such a file
SearchesFollowIngest ==
  /\ client.fileId # NoFile => IngestReturned(client.fileId)
  /\ \A i \in 1..Len(client.requests) : IngestReturned(client.requests[i].fileId)
  /\ \A q \in SearchIds :
       searches[q].pc # "idle" => IngestReturned(searches[q].fileId)

\* fileId changes only at the return of an invocation of process-file that
\* answered with success, to the file of that invocation: a failed upload,
\* file record insert or invocation leaves it as it was
FileIdSetOnSuccess ==
  client'.fileId # client.fileId
    => /\ client.pc = "invoking"
       /\ runs[client.run].pc = "done"
       /\ runs[client.run].response.kind = "ok"
       /\ runs[client.run].fileId = client.file
       /\ client'.fileId = client.file

\* a request is sent only while fileId is not null, and for that file
SentWithFileId ==
  Len(client'.requests) > Len(client.requests)
    => /\ client.fileId # NoFile
       /\ client'.requests[Len(client'.requests)].fileId = client.fileId

\* C26: in the client, a hybrid-search request for a file is sent only
\* after the invocation of process-file for that file has returned without
\* error: fileId stays null until ingestion succeeds, stays unchanged when
\* the upload, the file record insert or the ingestion fails, and no search
\* request is sent while fileId is null.
C26_SearchAfterIngest ==
  /\ []SearchesFollowIngest
  /\ [][FileIdSetOnSuccess /\ SentWithFileId]_vars

\* after a first attempt whose ingestion failed and that left fileId null,
\* a second attempt has succeeded and a search on its file has been served
C26_Witness ==
  /\ runs[1].pc = "done" /\ runs[1].response.kind = "error"
  /\ client.fileId = 2
  /\ \E q \in SearchIds : searches[q].pc = "done" /\ searches[q].fileId = 2
====
